---------------------------- MODULE Spec2Model ----------------------------
(***************************************************************************)
(* Model of the gesture hook (useHandTracking / interpretGesture) and of   *)
(* the particle engine (Particles' useFrame): its derived scalars, the     *)
(* template index, the particle state and the particle colours.            *)
(*                                                                         *)
(* Spec runs the hook with every tick published at once, SpecDecay runs it *)
(* through a long absence of the hand, SpecQueue runs it with React's      *)
(* update queue between a tick and its publication, SpecEngine runs the    *)
(* engine and SpecNormalize calls normalize on its own.                    *)
(*                                                                         *)
(* Numbers.  Every JavaScript number of the program is held in fixed point *)
(* with SCALE units per 1.0: 0.025 is 250, 1.0 is 10000, 360 degrees is    *)
(* 3600000.  A product or quotient is rounded to the nearest unit (half    *)
(* away from zero), sums and differences are exact, as IEEE arithmetic     *)
(* rounds the product and, at these magnitudes, leaves the sum exact to    *)
(* far below one unit.  Smoothing rates are held in hundredths (ALPHA),     *)
(* times are integer milliseconds.  NaN and infinities are not modelled.   *)
(*                                                                         *)
(* Landmarks.  distance() and Math.atan2 are not computed: a detection     *)
(* result is given by the features interpretGesture extracts from it       *)
(* (lines 98-124), drawn from HandFrames.                                  *)
(*                                                                         *)
(* Engine.  The template offsets (lib/particles) and Math.sin / Math.cos   *)
(* are not computed: the destination of every coordinate (lines 344-360)   *)
(* is drawn from EngineInputs.  The rotation, the wobble and the scale,    *)
(* which feed nothing back into the particle state, are left out.          *)
(***************************************************************************)
EXTENDS Integers, Sequences, FiniteSets

VARIABLES
    pc,                 \* where the async setup() stands
    active,             \* closure variable `active` of the effect
    stream,             \* closure variable `stream`: "null" or "set"
    tracks,             \* the camera stream's tracks: "none", "live", "stopped"
    handLandmarkerRef,  \* "null" or "set"
    session,            \* the HandLandmarker created: "none", "open", "closed"
    animationRef,       \* TRUE when animationRef.current holds a frame id
    rafPending,         \* TRUE while a requestAnimationFrame callback is scheduled
    status,             \* React state `status`
    now,                \* Date.now(), ms since the hook was constructed
    lastDetectionRef,   \* lastDetectionRef.current
    gestureData,        \* React state `gestureData` (the published ControlState)
    debug,              \* React state `debug` (the published DebugMetrics)
    shapeCycleRef,      \* shapeCycleRef.current
    pinchLatchRef,      \* pinchLatchRef.current (TRUE = latch CLOSED)
    frame,              \* what the last renderLoop call saw
    ticks,              \* renderLoop calls so far
    pinchHist,          \* history: pinchDistance of every hand-present tick
    props,              \* Particles' gestureData prop
    hueOut,             \* engine output: per-particle hue handed to setHSL, x360
    engineFrames,       \* useFrame calls so far
    templatesCount,     \* templates.length
    shapeIndex,         \* the template index of the last useFrame call
    derived,            \* the scalars the last useFrame call derived
    positions,          \* currentPositionsRef.current
    velocities,         \* velocitiesRef.current
    engineIn,           \* what the last useFrame call was given
    normCall,           \* a call of normalize: arguments and result
    queue,              \* setGestureData calls React has not yet rendered
    strictMode,         \* the app runs under React's StrictMode
    invocationLog       \* the updaters the last render invoked twice

hookVars == <<pc, active, stream, tracks, handLandmarkerRef, session,
              animationRef, rafPending, status, now, lastDetectionRef,
              gestureData, debug, shapeCycleRef, pinchLatchRef, frame,
              ticks, pinchHist>>
engineVars == <<props, hueOut, engineFrames, templatesCount, shapeIndex,
                derived, positions, velocities, engineIn>>
\* what no step of the hook touches
\* a call of a pure function on its own
pureVars == <<normCall>>

\* React's update queue of the gestureData state
queueVars == <<queue, strictMode, invocationLog>>

otherVars == <<engineVars, pureVars, queueVars>>

\* what no step of the engine touches
nonEngineVars == <<hookVars, pureVars, queueVars>>
vars == <<hookVars, otherVars>>

---------------------------------------------------------------------------
(* Bounds of the model *)

MaxTicks == 5
MaxFrames == 2
PARTICLE_COUNT == 4
MaxTemplates == 3
MaxDecayTicks == 170
MaxQueueTicks == 4

---------------------------------------------------------------------------
(* Arithmetic *)

SCALE == 10 ^ 4

Abs(x) == IF x < 0 THEN -x ELSE x

Sgn(x) == IF x < 0 THEN -1 ELSE 1

\* a / b rounded to the nearest integer, half away from zero (b # 0)
RoundDiv(a, b) ==
    Sgn(a) * Sgn(b) * ((2 * Abs(a) + Abs(b)) \div (2 * Abs(b)))

\* x * y of two fixed-point numbers
Mul(x, y) == RoundDiv(x * y, SCALE)

\* JavaScript's %: the remainder takes the sign of the dividend
JsRem(a, b) == Sgn(a) * (Abs(a) % Abs(b))

Min2(a, b) == IF a < b THEN a ELSE b

Max2(a, b) == IF a > b THEN a ELSE b

clamp(value, min, max) == Min2(Max2(value, min), max)

\* a smoothing rate is held in hundredths: 0.05 is 5
ALPHA == 10 ^ 2

\* a step that starts from the end and so lands beyond it
lerpOvershoot(start, end, alpha) ==
    end + RoundDiv((end - start) * alpha, ALPHA)

lerp(start, end, alpha) == start + RoundDiv((end - start) * alpha, ALPHA)

normalizeUnclamped(value, min, max) ==
    LET range == max - min
    IN  IF range = 0 THEN 0 ELSE RoundDiv((value - min) * SCALE, range)

normalize(value, min, max) ==
    LET range == max - min
    IN  IF range = 0 THEN 0
        ELSE clamp(RoundDiv((value - min) * SCALE, range), 0, SCALE)

---------------------------------------------------------------------------
(* interpretGesture *)

INITIAL_GESTURE ==
    [shapeCycle |-> 0, expansion |-> 2500, swirl |-> 4000,
     colorHue |-> 220 * SCALE, colorIntensity |-> 5500, burst |-> 1000]

PINCH_IN_THRESHOLD == 250

PINCH_OUT_THRESHOLD == 450

\* A detection result, by the features lines 98-124 extract from it.
\* landmarks: result.landmarks.length > 0; world: result.worldLandmarks[0] exists.
NoDetection ==
    [landmarks |-> FALSE, world |-> FALSE, pinchDistance |-> 0,
     spreadDistance |-> 0, tiltNormalized |-> 0, palmY |-> 0,
     fingerExtension |-> 0, varianceZ |-> 0]

NoWorldLandmarks == [NoDetection EXCEPT !.landmarks = TRUE]

HandFrame(pinch, spread, tilt, y, ext, var) ==
    [landmarks |-> TRUE, world |-> TRUE, pinchDistance |-> pinch,
     spreadDistance |-> spread, tiltNormalized |-> tilt, palmY |-> y,
     fingerExtension |-> ext, varianceZ |-> var]

\* Distances and the variance are >= 0 and the tilt is in [0,1] by their
\* construction; the palm height is any coordinate.  The values sit on, inside
\* and far outside the bounds normalize() is given.
HandFrames ==
    { HandFrame(150, 20000, 5000, -5000, 1000, 100),
      HandFrame(200,  1600, 2000,  1000,  475,  26),
      HandFrame(250,     0, 10000, 4500,    0,   0),
      HandFrame(350,  1200, 6500,  -700,  300,  14),
      HandFrame(450,   700, 8000, 10000,  150,   2),
      HandFrame(500,  2500,    0, -2500,  800,  50) }

\* line 128: the target the hue is smoothed toward
HueTarget(palmY) == 360 * SCALE - normalize(palmY, -2500, 4500) * 360

\* lines 81-86 and 168: the DebugMetrics of no hand
SENTINEL_DEBUG == [pinch |-> SCALE, spread |-> 0, openness |-> 0, tilt |-> 5000]

\* lines 72-80: the no-hand return of interpretGesture
NoHandGesture(prev) ==
    [prev EXCEPT
        !.expansion = lerp(prev.expansion, INITIAL_GESTURE.expansion, 5),
        !.swirl = lerp(prev.swirl, INITIAL_GESTURE.swirl, 5),
        !.colorHue = lerp(prev.colorHue, INITIAL_GESTURE.colorHue, 5),
        !.colorIntensity =
            lerp(prev.colorIntensity, INITIAL_GESTURE.colorIntensity, 5),
        !.burst = lerp(prev.burst, INITIAL_GESTURE.burst, 5)]

\* a latch that counts every sample under the enter threshold
PinchLatchNoMemo(pinchDistance, shapeState, pinchMemo) ==
    IF pinchDistance < PINCH_IN_THRESHOLD
    THEN [shapeState |-> shapeState + 1, pinchMemo |-> TRUE]
    ELSE IF pinchDistance > PINCH_OUT_THRESHOLD /\ pinchMemo
         THEN [shapeState |-> shapeState, pinchMemo |-> FALSE]
         ELSE [shapeState |-> shapeState, pinchMemo |-> pinchMemo]

\* a latch whose exit comparison is not strict
PinchLatchOneThreshold(pinchDistance, shapeState, pinchMemo) ==
    IF pinchDistance < PINCH_IN_THRESHOLD /\ ~pinchMemo
    THEN [shapeState |-> shapeState + 1, pinchMemo |-> TRUE]
    ELSE IF pinchDistance >= PINCH_OUT_THRESHOLD /\ pinchMemo
         THEN [shapeState |-> shapeState, pinchMemo |-> FALSE]
         ELSE [shapeState |-> shapeState, pinchMemo |-> pinchMemo]

\* lines 135-140: the refs after the pinch latch has seen pinchDistance
PinchLatch(pinchDistance, shapeState, pinchMemo) ==
    IF pinchDistance < PINCH_IN_THRESHOLD /\ ~pinchMemo
    THEN [shapeState |-> shapeState + 1, pinchMemo |-> TRUE]
    ELSE IF pinchDistance > PINCH_OUT_THRESHOLD /\ pinchMemo
         THEN [shapeState |-> shapeState, pinchMemo |-> FALSE]
         ELSE [shapeState |-> shapeState, pinchMemo |-> pinchMemo]

\* lines 64-158: the gesture returned and the two refs as the call leaves them
interpretGesture(res, prev, shapeState, pinchMemo) ==
    IF ~res.world \/ ~res.landmarks
    THEN [gesture |-> NoHandGesture(prev), debug |-> SENTINEL_DEBUG,
          shapeState |-> shapeState, pinchMemo |-> pinchMemo]
    ELSE
        LET latch == PinchLatch(res.pinchDistance, shapeState, pinchMemo)
            ext == normalize(res.fingerExtension, 150, 800)
        IN  [gesture |->
                [shapeCycle |-> latch.shapeState,
                 expansion |->
                    lerp(prev.expansion,
                         normalize(res.spreadDistance, 700, 2500), 20),
                 swirl |->
                    lerp(prev.swirl,
                         normalize(res.tiltNormalized, 2000, 8000), 15),
                 colorHue |-> lerp(prev.colorHue, HueTarget(res.palmY), 12),
                 colorIntensity |-> lerp(prev.colorIntensity, ext, 18),
                 burst |->
                    lerp(prev.burst,
                         Mul(normalize(res.varianceZ, 2, 50), ext), 25)],
             debug |->
                [pinch |-> res.pinchDistance, spread |-> res.spreadDistance,
                 openness |-> res.fingerExtension,
                 tilt |-> res.tiltNormalized],
             shapeState |-> latch.shapeState,
             pinchMemo |-> latch.pinchMemo]

---------------------------------------------------------------------------
(* useHandTracking: the effect's setup(), renderLoop and cleanup *)

\* What one renderLoop call meets: the time gone by since the previous call
\* (ms), whether video.readyState >= 2, and what detectForVideo returns.
FrameInputs ==
    {[dt |-> 325, ready |-> FALSE, res |-> NoDetection]}
    \cup {[dt |-> d, ready |-> TRUE, res |-> NoDetection] : d \in {325, 651}}
    \cup {[dt |-> 325, ready |-> TRUE, res |-> NoWorldLandmarks]}
    \cup {[dt |-> 325, ready |-> TRUE, res |-> h] : h \in HandFrames}

\* a decay that starts again from the initial gesture, counter included
DecayGestureReset(prev, shapeCycle) ==
    [shapeCycle |-> INITIAL_GESTURE.shapeCycle,
     expansion |-> lerp(prev.expansion, INITIAL_GESTURE.expansion, 6),
     swirl |-> lerp(prev.swirl, INITIAL_GESTURE.swirl, 6),
     colorHue |-> lerp(prev.colorHue, INITIAL_GESTURE.colorHue, 6),
     colorIntensity |->
        lerp(prev.colorIntensity, INITIAL_GESTURE.colorIntensity, 6),
     burst |-> lerp(prev.burst, INITIAL_GESTURE.burst, 6)]

\* lines 233-240: the updater of a tick without detection
DecayGesture(prev, shapeCycle) ==
    [shapeCycle |-> shapeCycle,
     expansion |-> lerp(prev.expansion, INITIAL_GESTURE.expansion, 6),
     swirl |-> lerp(prev.swirl, INITIAL_GESTURE.swirl, 6),
     colorHue |-> lerp(prev.colorHue, INITIAL_GESTURE.colorHue, 6),
     colorIntensity |->
        lerp(prev.colorIntensity, INITIAL_GESTURE.colorIntensity, 6),
     burst |-> lerp(prev.burst, INITIAL_GESTURE.burst, 6)]

StaleAtLimit(timeSince) == timeSince >= 650

\* line 230
Stale(timeSince) == timeSince > 650

\* line 227
DetectedStatus(statusIn) == "ready"

FrameKind(in) ==
    IF ~in.res.landmarks THEN "none"
    ELSE IF ~in.res.world THEN "noworld" ELSE "hand"

\* lines 206-245: one call of renderLoop.  statusIn is `status` as the caller
\* left it, landmarker is handLandmarkerRef.current at the call.  The updater
\* given to setGestureData is applied within the tick: React runs it inside
\* the setGestureData call, so interpretedDebug is set when line 224 reads it.
renderLoop(in, statusIn, landmarker) ==
    /\ ticks' = ticks + 1
    /\ now' = now + in.dt
    /\ animationRef' = TRUE
    /\ rafPending' = TRUE
    /\ IF ~active \/ ~in.ready
       THEN /\ frame' = [kind |-> "skip", res |-> NoDetection]
            /\ status' = statusIn
            /\ UNCHANGED <<lastDetectionRef, gestureData, debug,
                           shapeCycleRef, pinchLatchRef, pinchHist>>
       ELSE IF landmarker = "null"
       THEN /\ frame' = [kind |-> "idle", res |-> NoDetection]
            /\ status' = statusIn
            /\ UNCHANGED <<lastDetectionRef, gestureData, debug,
                           shapeCycleRef, pinchLatchRef, pinchHist>>
       ELSE IF in.res.landmarks
       THEN LET interpreted ==
                    interpretGesture(in.res, gestureData, shapeCycleRef,
                                     pinchLatchRef)
            IN  /\ frame' = [kind |-> FrameKind(in), res |-> in.res]
                /\ lastDetectionRef' = now'
                /\ gestureData' = interpreted.gesture
                /\ debug' = interpreted.debug
                /\ shapeCycleRef' = interpreted.shapeState
                /\ pinchLatchRef' = interpreted.pinchMemo
                /\ pinchHist' = IF in.res.world
                                THEN Append(pinchHist, in.res.pinchDistance)
                                ELSE pinchHist
                /\ status' = DetectedStatus(statusIn)
       ELSE /\ frame' = [kind |-> "none", res |-> in.res]
            /\ status' = IF Stale(now' - lastDetectionRef)
                         THEN "no-hands" ELSE statusIn
            /\ gestureData' = DecayGesture(gestureData, shapeCycleRef)
            /\ UNCHANGED <<lastDetectionRef, debug, shapeCycleRef,
                           pinchLatchRef, pinchHist>>

Awaiting == {"camera", "play", "fileset", "model"}

\* line 180: getUserMedia resolves; lines 188-189
CameraResolved ==
    /\ pc = "camera"
    /\ pc' = "play"
    /\ stream' = "set"
    /\ tracks' = "live"
    /\ UNCHANGED <<active, handLandmarkerRef, session, animationRef,
                   rafPending, status, now, lastDetectionRef, gestureData,
                   shapeCycleRef, pinchLatchRef, frame, ticks, pinchHist,
                   debug, otherVars>>

\* line 189: video.play() resolves; line 191
PlayResolved ==
    /\ pc = "play"
    /\ pc' = "fileset"
    /\ UNCHANGED <<active, stream, tracks, handLandmarkerRef, session,
                   animationRef, rafPending, status, now, lastDetectionRef,
                   gestureData, shapeCycleRef, pinchLatchRef, frame, ticks,
                   pinchHist, debug,
                   otherVars>>

\* line 191: forVisionTasks resolves; line 195
FilesetResolved ==
    /\ pc = "fileset"
    /\ pc' = "model"
    /\ UNCHANGED <<active, stream, tracks, handLandmarkerRef, session,
                   animationRef, rafPending, status, now, lastDetectionRef,
                   gestureData, shapeCycleRef, pinchLatchRef, frame, ticks,
                   pinchHist, debug,
                   otherVars>>

\* lines 195-247: createFromOptions resolves, status is set and renderLoop is
\* called for the first time
ModelResolved(in) ==
    /\ pc = "model"
    /\ pc' = "running"
    /\ handLandmarkerRef' = "set"
    /\ session' = "open"
    /\ renderLoop(in, "ready", "set")
    /\ UNCHANGED <<active, stream, tracks, otherVars>>

\* a catch block that reports nothing
SetupRejectedSilent ==
    /\ pc \in Awaiting
    /\ pc' = "failed"
    /\ UNCHANGED <<status, active, stream, tracks, handLandmarkerRef, session,
                   animationRef, rafPending, now, lastDetectionRef,
                   gestureData, shapeCycleRef, pinchLatchRef, frame, ticks,
                   pinchHist, debug,
                   otherVars>>

\* lines 248-251: an awaited step of setup() rejects
SetupRejected ==
    /\ pc \in Awaiting
    /\ pc' = "failed"
    /\ status' = "error"
    /\ UNCHANGED <<active, stream, tracks, handLandmarkerRef, session,
                   animationRef, rafPending, now, lastDetectionRef,
                   gestureData, shapeCycleRef, pinchLatchRef, frame, ticks,
                   pinchHist, debug,
                   otherVars>>

\* the hand is shown to the camera as the loop starts
HandInputs == {[dt |-> 325, ready |-> TRUE, res |-> h] : h \in HandFrames}

\* and is gone afterwards
NoHandInputs ==
    {[dt |-> 325, ready |-> TRUE, res |-> r]
        : r \in {NoDetection, NoWorldLandmarks}}

\* the requestAnimationFrame callback runs, in a long run of the loop in
\* which the detector goes on answering as it did once the hand had gone
LongRunFrame(in) ==
    /\ rafPending
    /\ ticks < MaxDecayTicks
    /\ frame.kind \in {"hand", FrameKind(in)}
    /\ renderLoop(in, status, handLandmarkerRef)
    /\ UNCHANGED <<pc, active, stream, tracks, handLandmarkerRef, session,
                   otherVars>>

\* the requestAnimationFrame callback runs
AnimationFrame(in) ==
    /\ rafPending
    /\ ticks < MaxTicks
    /\ renderLoop(in, status, handLandmarkerRef)
    /\ UNCHANGED <<pc, active, stream, tracks, handLandmarkerRef, session,
                   otherVars>>

\* lines 256-266: the effect's cleanup
Cleanup ==
    /\ active
    /\ active' = FALSE
    /\ rafPending' = IF animationRef THEN FALSE ELSE rafPending
    /\ tracks' = IF stream = "set" THEN "stopped" ELSE tracks
    /\ session' = IF handLandmarkerRef = "set" THEN "closed" ELSE session
    /\ handLandmarkerRef' = "null"
    /\ UNCHANGED <<pc, stream, animationRef, status, now, lastDetectionRef,
                   gestureData, shapeCycleRef, pinchLatchRef, frame, ticks,
                   pinchHist, debug,
                   otherVars>>

---------------------------------------------------------------------------
(* Particles: the colour of useFrame *)

\* lines 330, 388-389: the hue of particle i in degrees, before the division
\* by 360 that hands it to setHSL
ParticleHue(colorHueIn, i) ==
    LET colorHue == JsRem(colorHueIn, 360 * SCALE)
        hueVariance == RoundDiv(i * 40 * SCALE, PARTICLE_COUNT)
    IN  JsRem(colorHue + hueVariance, 360 * SCALE)

\* gestureData props the engine is run on: hues below, in and above [0,360)
EngineHues ==
    {-370 * SCALE, -10 * SCALE, -1, 0, 1, 220 * SCALE, 340 * SCALE,
     360 * SCALE - 1, 360 * SCALE, 360 * SCALE + 1, 730 * SCALE}

EngineProps == {[INITIAL_GESTURE EXCEPT !.colorHue = h] : h \in EngineHues}

\* ControlStates with fields outside their declared bounds
EngineOutOfRange ==
    { [shapeCycle |-> 7, expansion |-> -5000, swirl |-> 15000,
       colorHue |-> 220 * SCALE, colorIntensity |-> 20000, burst |-> -3000],
      [shapeCycle |-> 3, expansion |-> 20000, swirl |-> -2500,
       colorHue |-> 220 * SCALE, colorIntensity |-> -1, burst |-> 25000],
      [shapeCycle |-> 12, expansion |-> SCALE, swirl |-> SCALE,
       colorHue |-> 220 * SCALE, colorIntensity |-> SCALE, burst |-> SCALE] }

\* the gestureData the engine may be rendered with
EngineControls == EngineProps \cup EngineOutOfRange

MATH_PI == 31416

\* line 291: lerp of the engine, alpha in fixed point
lerpE(from, to, alpha) == from + Mul(to - from, alpha)

\* a template index taken without the modulo
TemplateIndexUnwrapped(shapeCycle, count) == shapeCycle

\* line 321
TemplateIndex(shapeCycle, count) == JsRem(shapeCycle, count)

\* lines 328-332, 366, 390-392: the scalars derived from gestureData, each as
\* it is used
Derive(g) ==
    LET glowStrength == clamp(g.colorIntensity, 2000, SCALE)
        burst == clamp(g.burst, 0, SCALE)
    IN  [expansion |-> lerpE(3500, 18500, clamp(g.expansion, 0, SCALE)),
         swirl |-> Mul(g.swirl, 2 * MATH_PI),
         glowStrength |-> glowStrength,
         burst |-> burst,
         rate |-> 800 + Mul(burst, 500),
         saturation |-> clamp(5500 + Mul(glowStrength, 3500), 0, SCALE),
         luminance |-> clamp(4500 + Mul(burst, 2500), 2000, 9000)]

\* a step factor that is capped but has no floor
StepFactorNoFloor(delta) == Min2(delta * 60, 18000)

\* lines 370-372: clamp(delta * 60, 0.45, 1.8)
StepFactor(delta) == clamp(delta * 60, 4500, 18000)

Coords == 0 .. 3 * PARTICLE_COUNT - 1

\* lines 344-360: where coordinate k is drawn to, for two templates
DestinationSpread == [k \in Coords |-> 12000 - 3000 * k]
DestinationPulled == [k \in Coords |-> IF k % 2 = 0 THEN -25000 ELSE 0]

\* what one useFrame call is given: the frame time (s) and the destinations
EngineInputs ==
    {[delta |-> d, dest |-> DestinationSpread] : d \in {0, 167}}
    \cup {[delta |-> d, dest |-> DestinationPulled] : d \in {10000}}

\* the parent renders Particles with a new gestureData
SetProps(g) ==
    /\ engineFrames < MaxFrames
    /\ props' = g
    /\ UNCHANGED <<nonEngineVars, hueOut, engineFrames, templatesCount,
                   shapeIndex, derived, positions, velocities, engineIn>>

\* lines 316-403: one useFrame call
UseFrame(in) ==
    /\ engineFrames < MaxFrames
    /\ engineFrames' = engineFrames + 1
    /\ engineIn' = [delta |-> in.delta, dest |-> in.dest, control |-> props]
    /\ shapeIndex' = TemplateIndex(props.shapeCycle, templatesCount)
    /\ derived' = Derive(props)
    /\ velocities' = [k \in Coords |->
                        lerpE(velocities[k], in.dest[k] - positions[k],
                              Derive(props).rate)]
    /\ positions' = [k \in Coords |->
                        positions[k]
                        + Mul(velocities'[k], StepFactor(in.delta))]
    /\ hueOut' = [i \in 0 .. PARTICLE_COUNT - 1 |->
                    ParticleHue(props.colorHue, i)]
    /\ UNCHANGED <<nonEngineVars, props, templatesCount>>

---------------------------------------------------------------------------
(* renderLoop with React's update queue.  setGestureData runs its updater  *)
(* inside the call only when the component has no update pending; else the *)
(* updater waits in the queue and runs when React renders.  Under          *)
(* StrictMode a render runs every waiting updater twice on the same prev   *)
(* and keeps one of the two results.                                       *)

\* what the loop meets in these runs
QueueInputs ==
    {[dt |-> 325, ready |-> TRUE, res |-> r]
        : r \in {NoDetection, NoWorldLandmarks,
                 HandFrame(150, 20000, 5000, -5000, 1000, 100),
                 HandFrame(350,  1200, 6500,  -700,  300,  14),
                 HandFrame(500,  2500,    0, -2500,  800,  50)}}

\* the first call of renderLoop finds the video not ready
VideoNotReady == {[dt |-> 325, ready |-> FALSE, res |-> NoDetection]}

\* lines 219-223 and 233-240: one call of an updater on prev, with the refs as
\* it finds them
InvokeUpdater(u, prev, shapeState, pinchMemo) ==
    IF u.kind = "interpret"
    THEN LET interpreted == interpretGesture(u.res, prev, shapeState, pinchMemo)
         IN  [gesture |-> interpreted.gesture,
              shapeState |-> interpreted.shapeState,
              pinchMemo |-> interpreted.pinchMemo]
    ELSE [gesture |-> DecayGesture(prev, shapeState),
          shapeState |-> shapeState, pinchMemo |-> pinchMemo]

\* React applies one update of the queue to the state st it has built so far
ApplyUpdate(u, st, keep) ==
    IF u.kind = "eager"
    THEN [st EXCEPT !.gesture = u.state]
    ELSE LET first == InvokeUpdater(u, st.gesture, st.shapeState, st.pinchMemo)
             second == InvokeUpdater(u, st.gesture, first.shapeState,
                                     first.pinchMemo)
         IN  IF keep = "once"
             THEN [st EXCEPT !.gesture = first.gesture,
                             !.shapeState = first.shapeState,
                             !.pinchMemo = first.pinchMemo]
             ELSE [gesture |-> IF keep = "first" THEN first.gesture
                               ELSE second.gesture,
                   shapeState |-> second.shapeState,
                   pinchMemo |-> second.pinchMemo,
                   log |-> Append(st.log,
                                  [before |-> st.shapeState,
                                   first |-> first, second |-> second])]

RECURSIVE ApplyQueue(_, _, _)
ApplyQueue(q, st, keep) ==
    IF q = <<>> THEN st
    ELSE ApplyQueue(Tail(q), ApplyUpdate(Head(q), st, keep), keep)

\* the orders a render may take the queue in: an update whose state was
\* computed at the call stays in front
QueueOrders(q) ==
    { [i \in 1 .. Len(q) |-> q[p[i]]] :
        p \in { f \in [1 .. Len(q) -> 1 .. Len(q)] :
                  /\ \A i, j \in 1 .. Len(q) : f[i] = f[j] => i = j
                  /\ (q # <<>> /\ q[1].kind = "eager") => f[1] = 1 } }

\* lines 206-245: one call of renderLoop whose setGestureData goes through
\* the queue
QueuedFrame(in, eager) ==
    /\ rafPending
    /\ pc = "running"
    /\ active
    /\ handLandmarkerRef = "set"
    /\ ticks < MaxQueueTicks
    /\ eager => queue = <<>>
    /\ ticks' = ticks + 1
    /\ now' = now + in.dt
    /\ animationRef' = TRUE
    /\ rafPending' = TRUE
    /\ frame' = [kind |-> FrameKind(in), res |-> in.res]
    /\ IF in.res.landmarks
       THEN /\ lastDetectionRef' = now'
            /\ status' = DetectedStatus(status)
            /\ IF eager
               THEN LET interpreted ==
                            interpretGesture(in.res, gestureData,
                                             shapeCycleRef, pinchLatchRef)
                    IN  /\ queue' = <<[kind |-> "eager",
                                       state |-> interpreted.gesture]>>
                        /\ debug' = interpreted.debug
                        /\ shapeCycleRef' = interpreted.shapeState
                        /\ pinchLatchRef' = interpreted.pinchMemo
               ELSE /\ queue' = Append(queue, [kind |-> "interpret",
                                               res |-> in.res])
                    /\ UNCHANGED <<debug, shapeCycleRef, pinchLatchRef>>
       ELSE /\ status' = IF Stale(now' - lastDetectionRef)
                         THEN "no-hands" ELSE status
            /\ queue' = IF eager
                        THEN <<[kind |-> "eager",
                                state |-> DecayGesture(gestureData,
                                                       shapeCycleRef)]>>
                        ELSE Append(queue, [kind |-> "decay"])
            /\ UNCHANGED <<lastDetectionRef, debug, shapeCycleRef,
                           pinchLatchRef>>
    /\ UNCHANGED <<pc, active, stream, tracks, handLandmarkerRef, session,
                   gestureData, pinchHist, strictMode, invocationLog,
                   engineVars, pureVars>>

\* React renders the component: the queue is applied and the result is what
\* the hook returns from now on
Render(keep) ==
    /\ queue # <<>>
    /\ (keep = "once") = ~strictMode
    /\ \E q \in QueueOrders(queue) :
        LET st == ApplyQueue(q, [gesture |-> gestureData,
                                 shapeState |-> shapeCycleRef,
                                 pinchMemo |-> pinchLatchRef,
                                 log |-> <<>>], keep)
        IN  /\ gestureData' = st.gesture
            /\ shapeCycleRef' = st.shapeState
            /\ pinchLatchRef' = st.pinchMemo
            /\ invocationLog' = st.log
    /\ queue' = <<>>
    /\ UNCHANGED <<pc, active, stream, tracks, handLandmarkerRef, session,
                   animationRef, rafPending, status, now, lastDetectionRef,
                   debug, frame, ticks, pinchHist, strictMode,
                   engineVars, pureVars>>

---------------------------------------------------------------------------
(* normalize on its own *)

\* value, min and max of a call, the hook's own bounds among them
NormalizeInputs ==
    [value : {-20000, 0, 700, 1600, 2500, 5000, 12000},
     min : {-2500, 0, 700, 2500},
     max : {-2500, 0, 700, 2500, 4500, 8000}]

NoCall == [args |-> [value |-> 0, min |-> 0, max |-> 0],
           done |-> TRUE, result |-> 0]

\* lines 58-62: the call returns
CallNormalize ==
    /\ ~normCall.done
    /\ normCall' = [normCall EXCEPT
                      !.done = TRUE,
                      !.result = normalize(normCall.args.value,
                                           normCall.args.min,
                                           normCall.args.max)]
    /\ UNCHANGED <<hookVars, engineVars, queueVars>>

---------------------------------------------------------------------------
(* Specifications *)

InitHook ==
    /\ pc \in {"camera", "returned"}
    /\ active = TRUE
    /\ stream = "null"
    /\ tracks = "none"
    /\ handLandmarkerRef = "null"
    /\ session = "none"
    /\ animationRef = FALSE
    /\ rafPending = FALSE
    /\ status = "initializing"
    /\ now = 0
    /\ lastDetectionRef = 0
    /\ gestureData = INITIAL_GESTURE
    /\ debug = SENTINEL_DEBUG
    /\ shapeCycleRef = 0
    /\ pinchLatchRef = FALSE
    /\ frame = [kind |-> "skip", res |-> NoDetection]
    /\ ticks = 0
    /\ pinchHist = <<>>

\* lines 303-314: positions in [-1.1, 1.1), velocities in [-0.01, 0.01)
InitialParticles ==
    { [positions |-> [k \in Coords |-> 0],
       velocities |-> [k \in Coords |-> 0]],
      [positions |-> [k \in Coords |-> 2000 * k - 11000],
       velocities |-> [k \in Coords |-> 99 - 18 * k]] }

InitEngineIdle ==
    /\ hueOut = [i \in 0 .. PARTICLE_COUNT - 1 |-> 0]
    /\ engineFrames = 0
    /\ shapeIndex = 0
    /\ derived = Derive(INITIAL_GESTURE)
    /\ engineIn = [delta |-> 0, dest |-> [k \in Coords |-> 0],
                   control |-> INITIAL_GESTURE]
    /\ \E p \in InitialParticles :
            positions = p.positions /\ velocities = p.velocities

InitQueueIdle ==
    /\ queue = <<>>
    /\ strictMode = FALSE
    /\ invocationLog = <<>>

Init ==
    /\ InitHook
    /\ normCall = NoCall
    /\ InitQueueIdle
    /\ props = INITIAL_GESTURE
    /\ templatesCount = MaxTemplates
    /\ positions = [k \in Coords |-> 0]
    /\ InitEngineIdle

Next ==
    \/ CameraResolved
    \/ PlayResolved
    \/ FilesetResolved
    \/ \E in \in FrameInputs : ModelResolved(in)
    \/ SetupRejected
    \/ \E in \in FrameInputs : AnimationFrame(in)
    \/ Cleanup

Spec == Init /\ [][Next]_vars

InitEngine ==
    /\ InitHook
    /\ pc = "camera"
    /\ props \in EngineControls
    /\ normCall = NoCall
    /\ InitQueueIdle
    /\ templatesCount \in 1 .. MaxTemplates
    /\ InitEngineIdle

NextEngine ==
    \/ \E g \in EngineControls : SetProps(g)
    \/ \E in \in EngineInputs : UseFrame(in)

SpecEngine == InitEngine /\ [][NextEngine]_vars

\* the hook is started, sees a hand on the first call of renderLoop and none
\* in the calls that follow
InitDecay ==
    /\ Init
    /\ pc = "camera"

NextDecay ==
    \/ CameraResolved
    \/ PlayResolved
    \/ FilesetResolved
    \/ \E in \in HandInputs : ModelResolved(in)
    \/ \E in \in NoHandInputs : LongRunFrame(in)

SpecDecay == InitDecay /\ [][NextDecay]_vars

InitQueue ==
    /\ InitHook
    /\ pc = "camera"
    /\ normCall = NoCall
    /\ props = INITIAL_GESTURE
    /\ templatesCount = MaxTemplates
    /\ positions = [k \in Coords |-> 0]
    /\ InitEngineIdle
    /\ queue = <<>>
    /\ strictMode \in BOOLEAN
    /\ invocationLog = <<>>

NextQueue ==
    \/ CameraResolved
    \/ PlayResolved
    \/ FilesetResolved
    \/ \E in \in VideoNotReady : ModelResolved(in)
    \/ \E in \in QueueInputs, eager \in BOOLEAN : QueuedFrame(in, eager)
    \/ \E keep \in {"once", "first", "second"} : Render(keep)

SpecQueue == InitQueue /\ [][NextQueue]_vars

InitNormalize ==
    /\ InitHook
    /\ props = INITIAL_GESTURE
    /\ templatesCount = MaxTemplates
    /\ positions = [k \in Coords |-> 0]
    /\ InitEngineIdle
    /\ InitQueueIdle
    /\ \E a \in NormalizeInputs :
            normCall = [args |-> a, done |-> FALSE, result |-> 0]

NextNormalize == CallNormalize

SpecNormalize == InitNormalize /\ [][NextNormalize]_vars

---------------------------------------------------------------------------
(* Steps of a behaviour, as the properties below name them *)

\* a renderLoop call
Tick == ticks' = ticks + 1

\* a renderLoop call that detected a hand with world landmarks
HandTick == Tick /\ frame'.kind = "hand"

\* a renderLoop call whose detection returned no landmarks
NoneTick == Tick /\ frame'.kind = "none"

\* a renderLoop call that ran the detection and took either no-hand path
NoHandTick == Tick /\ frame'.kind \in {"none", "noworld"}

\* a renderLoop call whose detection returned landmarks
DetectionTick == Tick /\ frame'.kind \in {"hand", "noworld"}

---------------------------------------------------------------------------
(* Properties *)

\* C1: the counter grows by exactly 1 on a hand-present tick that finds the
\* latch OPEN and the pinch distance under 0.025, the latch is CLOSED after
\* that tick, and the counter changes on no other step.  Hence the hand ticks
\* 0.05, 0.02, 0.02, 0.05, 0.02 leave the counter at 2, and one, two or three
\* hand ticks at 0.015 leave it at 1 with the latch CLOSED.
C1_PinchLatchIncrement ==
    /\ [][IF HandTick /\ ~pinchLatchRef /\ frame'.res.pinchDistance < 250
          THEN shapeCycleRef' = shapeCycleRef + 1 /\ pinchLatchRef'
          ELSE shapeCycleRef' = shapeCycleRef]_vars
    /\ [](pinchHist = <<500, 200, 200, 500, 200>> => shapeCycleRef = 2)
    /\ [](pinchHist \in {<<150>>, <<150, 150>>, <<150, 150, 150>>}
            => shapeCycleRef = 1 /\ pinchLatchRef)

C1_Witness ==
    /\ pinchHist = <<500, 200, 200, 500, 200>>
    /\ shapeCycleRef = 2
    /\ pinchLatchRef

\* C2: the latch opens only on a hand-present tick with a pinch distance over
\* 0.045; a hand-present tick with the distance in [0.025, 0.045] changes
\* neither the latch nor the counter; so the counter never exceeds one more
\* than the number of hand ticks seen with a distance over 0.045.
C2_Hysteresis ==
    /\ [][(pinchLatchRef /\ ~pinchLatchRef')
            => (HandTick /\ frame'.res.pinchDistance > 450)]_vars
    /\ [][(HandTick /\ frame'.res.pinchDistance \in 250 .. 450)
            => (pinchLatchRef' = pinchLatchRef
                /\ shapeCycleRef' = shapeCycleRef)]_vars
    /\ [](shapeCycleRef <=
            1 + Cardinality({k \in 1 .. Len(pinchHist) : pinchHist[k] > 450}))

C2_Witness ==
    /\ pinchHist = <<200, 450, 250, 500, 200>>
    /\ shapeCycleRef = 2

\* C3: the published shapeCycle never decreases, grows by at most 1 in a step,
\* changes only in a hand-present tick that closes the latch, and a tick that
\* takes a no-hand path leaves the published counter, the counter and the latch
\* as they were.
C3_ShapeIndexMonotonic ==
    [][/\ gestureData'.shapeCycle \in
            {gestureData.shapeCycle, gestureData.shapeCycle + 1}
       /\ (gestureData'.shapeCycle # gestureData.shapeCycle
            => (HandTick /\ ~pinchLatchRef /\ pinchLatchRef'))
       /\ (NoHandTick
            => /\ gestureData'.shapeCycle = gestureData.shapeCycle
               /\ shapeCycleRef' = shapeCycleRef
               /\ pinchLatchRef' = pinchLatchRef)]_vars

C3_Witness ==
    /\ frame.kind = "none"
    /\ gestureData.shapeCycle = 2
    /\ pinchLatchRef

\* C4: every published gestureData has expansion, swirl, colorIntensity and
\* burst in [0,1] and colorHue in [0,360).
C4_ControlStateBounds ==
    /\ gestureData.expansion \in 0 .. SCALE
    /\ gestureData.swirl \in 0 .. SCALE
    /\ gestureData.colorIntensity \in 0 .. SCALE
    /\ gestureData.burst \in 0 .. SCALE
    /\ gestureData.colorHue \in 0 .. (360 * SCALE - 1)

C4_Witness ==
    /\ frame.kind = "none"
    /\ gestureData.expansion > 6000
    /\ gestureData.colorHue > 270 * SCALE
    /\ gestureData.burst > 5000

\* C5: a tick that takes a no-hand path moves each of the five continuous
\* fields from its prior value toward its default at the rate 0.05.
C5_NoHandDecayRate ==
    [][NoHandTick =>
        /\ gestureData'.expansion = lerp(gestureData.expansion, 2500, 5)
        /\ gestureData'.swirl = lerp(gestureData.swirl, 4000, 5)
        /\ gestureData'.colorHue = lerp(gestureData.colorHue, 220 * SCALE, 5)
        /\ gestureData'.colorIntensity =
                lerp(gestureData.colorIntensity, 5500, 5)
        /\ gestureData'.burst = lerp(gestureData.burst, 1000, 5)]_vars

\* setup() has returned, thrown or started the loop: it awaits nothing more
SetupSettled == pc \in {"running", "failed", "returned"}

\* C6: once the cleanup has run and setup() awaits nothing more, no frame
\* callback is scheduled, the camera tracks are not live and the inference
\* session is not open.
C6_StopReleasesEverything ==
    (~active /\ SetupSettled)
        => (~rafPending /\ tracks # "live" /\ session # "open")

\* C7: after a rejected step of setup() the status is 'error', renderLoop has
\* never been called and no frame is scheduled; setup() is not entered again
\* and the status stays 'error'.
C7_FailureIsTerminal ==
    /\ [](pc = "failed"
            => (status = "error" /\ ticks = 0 /\ ~rafPending /\ ~animationRef))
    /\ [][pc = "failed" => pc' = "failed"]_vars
    /\ [][status = "error" => status' = "error"]_vars

C7_Witness ==
    /\ pc = "failed"
    /\ status = "error"
    /\ tracks = "live"
    /\ session = "none"

\* C8: the status becomes 'no-hands' only in a tick without detection that
\* reads more than 650 ms since the last detection, and every such tick sets
\* it; a tick without detection within 650 ms leaves the status as the loop
\* found it ('ready' in the call setup() makes); a tick with a detection sets
\* the status to 'ready' and the last-detection time to the time it read, and
\* nothing else moves the last-detection time.
C8_StaleDetectionStatus ==
    [][/\ (status' = "no-hands" /\ status # "no-hands")
            => (NoneTick /\ now' - lastDetectionRef > 650)
       /\ (NoneTick /\ now' - lastDetectionRef > 650) => status' = "no-hands"
       /\ (NoneTick /\ now' - lastDetectionRef <= 650)
            => status' = (IF pc = "model" THEN "ready" ELSE status)
       /\ DetectionTick => (status' = "ready" /\ lastDetectionRef' = now')
       /\ lastDetectionRef' # lastDetectionRef => DetectionTick]_vars

C8_Witness ==
    /\ status = "no-hands"
    /\ frame.kind = "none"
    /\ lastDetectionRef > 0
    /\ now - lastDetectionRef = 975

\* C9: the hue the engine computes for every particle lies in [0,360).
C9_ParticleHueInRange ==
    \A i \in 0 .. PARTICLE_COUNT - 1 : hueOut[i] \in 0 .. (360 * SCALE - 1)

\* C10: the hue target of every hand-present tick lies in [0,360).
C10_HueTargetInRange ==
    frame.kind = "hand"
        => HueTarget(frame.res.palmY) \in 0 .. (360 * SCALE - 1)

\* C14: after a tick that takes a no-hand path the published DebugMetrics are
\* pinch = 1, spread = 0, openness = 0, tilt = 0.5.
C14_NoHandDebugSentinel ==
    frame.kind \in {"none", "noworld"} => debug = SENTINEL_DEBUG

\* a step that is one useFrame call
FrameStep == engineFrames' = engineFrames + 1

\* C11: whatever ControlState the engine is given, after a frame the expansion
\* factor is in [0.35, 1.85], the glow strength in [0.2, 1], the burst factor
\* in [0, 1], the velocity smoothing rate in [0.08, 0.13], the swirl angle in
\* [0, 2 pi], the saturation in [0, 1] and the luminance in [0.2, 0.9].
C11_DerivedScalarsBounded ==
    engineFrames > 0 =>
        /\ derived.expansion >= 3500 /\ derived.expansion <= 18500
        /\ derived.glowStrength >= 2000 /\ derived.glowStrength <= SCALE
        /\ derived.burst >= 0 /\ derived.burst <= SCALE
        /\ derived.rate >= 800 /\ derived.rate <= 1300
        /\ derived.swirl >= 0 /\ derived.swirl <= 2 * MATH_PI
        /\ derived.saturation >= 0 /\ derived.saturation <= SCALE
        /\ derived.luminance >= 2000 /\ derived.luminance <= 9000

\* C12: in a frame every coordinate moves by its updated velocity times
\* s = clamp(deltaTime * 60, 0.45, 1.8), so by no less than 0.45 times and no
\* more than 1.8 times the velocity's magnitude, whatever the frame time.
C12_PositionStepClamped ==
    [][FrameStep =>
        \A k \in Coords :
            /\ positions'[k] - positions[k]
                 = Mul(velocities'[k],
                       clamp(engineIn'.delta * 60, 4500, 18000))
            /\ Abs(positions'[k] - positions[k])
                 >= Abs(Mul(velocities'[k], 4500))
            /\ Abs(positions'[k] - positions[k])
                 <= Abs(Mul(velocities'[k], 18000))]_vars

\* a frame with a frame time of a whole second has moved particles
C12_Witness ==
    /\ engineFrames > 0
    /\ engineIn.delta = 10000
    /\ \E k \in Coords : Abs(velocities[k]) > 100

\* C15: for a non-negative shape index and at least one template, the index
\* used to look the template up is shapeIndex mod templateCount, which is in
\* 0 .. templateCount - 1.
C15_TemplateIndexValid ==
    engineFrames > 0 =>
        /\ shapeIndex \in 0 .. templatesCount - 1
        /\ shapeIndex = engineIn.control.shapeCycle % templatesCount

\* a frame whose shape index has wrapped around the templates
C15_Witness ==
    /\ engineFrames > 0
    /\ templatesCount > 1
    /\ engineIn.control.shapeCycle >= 2 * templatesCount
    /\ shapeIndex # 0

\* C16: for all value, min and max, max < min included, normalize returns a
\* result in [0, 1], and exactly 0 when max = min.
C16_NormalizeInUnitInterval ==
    normCall.done =>
        /\ normCall.result >= 0
        /\ normCall.result <= SCALE
        /\ normCall.args.max = normCall.args.min => normCall.result = 0

\* a call with max < min that returned a value strictly inside the interval
C16_Witness ==
    /\ normCall.done
    /\ normCall.args.max < normCall.args.min
    /\ normCall.result > 0
    /\ normCall.result < SCALE

\* a renderLoop call that ran the detection
ProcessingTick == Tick /\ frame'.kind \in {"hand", "noworld", "none"}

ContinuousFields ==
    {"expansion", "swirl", "colorHue", "colorIntensity", "burst"}

\* lines 75-79, 126-130 and 235-239: what a tick smooths each field toward
GestureTargets(res) ==
    IF ~res.world \/ ~res.landmarks
    THEN INITIAL_GESTURE
    ELSE [shapeCycle |-> 0,
          expansion |-> normalize(res.spreadDistance, 700, 2500),
          swirl |-> normalize(res.tiltNormalized, 2000, 8000),
          colorHue |-> HueTarget(res.palmY),
          colorIntensity |-> normalize(res.fingerExtension, 150, 800),
          burst |-> Mul(normalize(res.varianceZ, 2, 50),
                        normalize(res.fingerExtension, 150, 800))]

\* x lies in the closed interval between a and b
Between(a, x, b) == (a <= x /\ x <= b) \/ (b <= x /\ x <= a)

\* the distance of a field of g to its neutral default
DefaultDistance(g, f) == Abs(g[f] - INITIAL_GESTURE[f])

\* every field of the new gesture lies between its prior value and the target
NoOvershoot ==
    \A f \in ContinuousFields :
        Between(gestureData[f], gestureData'[f],
                GestureTargets(frame'.res)[f])

\* the distance under which a smoothing step is rounded away: 0.001
LERP_RESOLUTION == 10

C18_ReinvocationIdempotent ==
    \A i \in 1 .. Len(invocationLog) :
        LET e == invocationLog[i]
        IN  /\ e.second = e.first
            /\ e.first.shapeState <= e.before + 1

\* a pinch sample that made the counter grow was interpreted twice
C18_Witness ==
    \E i \in 1 .. Len(invocationLog) :
        /\ invocationLog[i].first.shapeState = invocationLog[i].before + 1
        /\ shapeCycleRef > 0

\* C19: once what the ticks have queued is applied, in whatever order, the
\* published shapeCycle is the counter of the latch; a state computed at the
\* call and still waiting carries the counter as well.
C19_PublishedCounterAgrees ==
    /\ queue = <<>> => gestureData.shapeCycle = shapeCycleRef
    /\ \A i \in 1 .. Len(queue) :
        queue[i].kind = "eager" => queue[i].state.shapeCycle = shapeCycleRef

\* a render has applied two waiting updaters after a pinch was counted, the
\* last tick being a no-hand one
C19_Witness ==
    /\ queue = <<>>
    /\ Len(invocationLog) >= 2
    /\ shapeCycleRef > 0
    /\ gestureData.shapeCycle = shapeCycleRef
    /\ frame.kind \in {"none", "noworld"}

===========================================================================
